---- MODULE Spec2Model ----
(***************************************************************************)
(* Model of the 2D batching engine of pkmn: the colour parser              *)
(* (graphics/color.rs), the Geometry Buffer and the primitive emitters     *)
(* (graphics/mod.rs), the Background, and the per-frame submit cycle.      *)
(*                                                                         *)
(* Strings are sequences of one-character strings.  f32 coordinates are    *)
(* integers (every value used is exactly representable).  A Result is a    *)
(* record tagged "Ok" / "Err"; a panic is the record tagged "Panic".       *)
(***************************************************************************)
EXTENDS Integers, Sequences, FiniteSets, TLC

VARIABLES
    hex,            \* the argument of Color::from_hex
    parsed,         \* what Color::from_hex returned for it
    rgba,           \* a Color value, receiver of fade and of the conversion
    alpha,          \* the f32 argument of Color::fade
    wgpu_color,     \* what wgpu::Color::from returned for `rgba`
    faded,          \* what rgba.fade(alpha) returned
    batched,        \* quads of the initial batch, held ahead of the two
                    \* vectors below and not listed in them
    vertices,       \* State::vertices, Vec<Vertex>
    indices,        \* State::indices, Vec<u16>
    background,     \* State::background
    vertex_buffer,  \* State::vertex_buffer (GPU resident)
    index_buffer,   \* State::index_buffer (GPU resident)
    pc,             \* position of the frame-submit cycle
    render_pass,    \* the render pass of the frame being submitted
    framebuffer,    \* what the surface shows
    call,           \* arguments of this frame's most recent push_shape call
    shapes,         \* shapes pushed since the Geometry Buffer was last empty
    emitted,        \* shapes pushed since this tick's render phase began
    requested,      \* clear_background calls since the previous submit
    did,            \* steps performed by the most recent frame attempt
    peak            \* largest content byte sizes uploaded so far

vars == <<hex, parsed, rgba, alpha, wgpu_color, faded, batched, vertices,
          indices, background, vertex_buffer,
          index_buffer, pc, render_pass, framebuffer, call, shapes, emitted,
          requested, did, peak>>

colorVars == <<hex, parsed, rgba, alpha, wgpu_color, faded>>
frameVars == <<background, vertex_buffer, index_buffer, pc, render_pass,
               framebuffer, requested, did, peak>>
geometryVars == <<batched, vertices, indices, call, shapes, emitted>>

(***************************************************************************)
(* Bounds of the model                                                     *)
(***************************************************************************)
\* longest generated argument of from_hex
MaxHexLen == 9
\* shapes per frame in the frame specification
MaxShapes == 2
\* shapes pushed past the 16-bit boundary in the batch specification
MaxBatch == 2
\* binary digits after the point in the generated arguments of fade
AlphaBits == 3

(***************************************************************************)
(* color.rs                                                                *)
(***************************************************************************)
Some(v) == [some |-> TRUE, v |-> v]
None == [some |-> FALSE, v |-> 0]
Ok(v) == [tag |-> "Ok", val |-> v]
Err(e) == [tag |-> "Err", err |-> e]
Panic == [tag |-> "Panic"]

Color(r, g, b, a) == [r |-> r, g |-> g, b |-> b, a |-> a]

\* str::to_uppercase on one character (identity outside a..z)
ToUpper(c) ==
    CASE c = "a" -> "A" [] c = "b" -> "B" [] c = "c" -> "C"
      [] c = "d" -> "D" [] c = "e" -> "E" [] c = "f" -> "F"
      [] c = "g" -> "G" [] c = "z" -> "Z"
      [] OTHER -> c

to_uppercase(s) == [i \in 1..Len(s) |-> ToUpper(s[i])]

is_valid(c) ==
    CASE c = "0" -> Some(0) [] c = "1" -> Some(1) [] c = "2" -> Some(2)
      [] c = "3" -> Some(3) [] c = "4" -> Some(4) [] c = "5" -> Some(5)
      [] c = "6" -> Some(6) [] c = "7" -> Some(7) [] c = "8" -> Some(8)
      [] c = "9" -> Some(9) [] c = "A" -> Some(10) [] c = "B" -> Some(11)
      [] c = "C" -> Some(12) [] c = "D" -> Some(13) [] c = "E" -> Some(14)
      [] c = "F" -> Some(15)
      [] OTHER -> None

\* next_two consumes up to two characters of the iterator; `rest` is the
\* iterator afterwards.  `?` returns at the first failure, in evaluation
\* order: first next(), first is_valid, second next(), second is_valid.
next_two(chars) ==
    IF Len(chars) = 0 THEN [res |-> Err("invalid"), rest |-> chars]
    ELSE IF ~is_valid(chars[1]).some
    THEN [res |-> Err("invalid character"), rest |-> Tail(chars)]
    ELSE IF Len(chars) = 1
    THEN [res |-> Err("invalid"), rest |-> Tail(chars)]
    ELSE IF ~is_valid(chars[2]).some
    THEN [res |-> Err("invalid character"), rest |-> Tail(Tail(chars))]
    ELSE [res |-> Ok((is_valid(chars[1]).v * 16 + is_valid(chars[2]).v) % 256),
          rest |-> Tail(Tail(chars))]

\* UTF-8 length of a character; the slice hex[1..] is taken at byte 1
ByteLen(c) == IF c = "e_acute" THEN 2 ELSE 1

unwrap_or(res, default) == IF res.tag = "Ok" THEN res.val ELSE default

from_hex(s) ==
    IF Len(s) = 0 \/ ByteLen(s[1]) # 1 THEN Panic
    ELSE
    LET upper == to_uppercase(Tail(s))
        r == next_two(upper)
        g == next_two(r.rest)
        b == next_two(g.rest)
        a == next_two(b.rest)
    IN  IF r.res.tag = "Err" THEN r.res
        ELSE IF g.res.tag = "Err" THEN g.res
        ELSE IF b.res.tag = "Err" THEN b.res
        ELSE Ok(Color(r.res.val, g.res.val, b.res.val, unwrap_or(a.res, 255)))

unwrap(res) == res.val

\* An f32 with at most AlphaBits fractional binary digits, as num / den with
\* den a power of two.  alpha * 256.0 is a multiplication by a power of two
\* and therefore exact.
F32(num, den) == [num |-> num, den |-> den]

\* f32::floor of num / den, den > 0
floor(num, den) == num \div den

\* `x as u8` for an integral f32: the cast saturates at the ends of u8
AsU8(x) == IF x < 0 THEN 0 ELSE IF x > 255 THEN 255 ELSE x

fade_times_255(self, a) == [self EXCEPT !.a = AsU8(floor(a.num * 255, a.den))]

\* self.a = (alpha * 256.0).floor() as u8; self
fade(self, a) == [self EXCEPT !.a = AsU8(floor(a.num * 256, a.den))]

\* cv(n) = (n / 256.0).powf(2.2), kept as its base n/256: x |-> x^2.2 is
\* injective on [0, 1], so two results are equal iff their bases are.
cv(n) == [num |-> n, den |-> 256]

\* impl From<Color> for wgpu::Color
WgpuColor(val) == [r |-> cv(val.r), g |-> cv(val.g), b |-> cv(val.b), a |-> cv(val.a)]

\* wgpu::Color::TRANSPARENT, all channels 0.0 = cv(0)
TRANSPARENT == [r |-> cv(0), g |-> cv(0), b |-> cv(0), a |-> cv(0)]

(***************************************************************************)
(* Arguments of from_hex: every string up to MaxHexLen over a small        *)
(* alphabet, and the strings of the repository                             *)
(***************************************************************************)
HexAlphabet == {"#", "9", "c", "Z"}

HexExamples ==
    { <<"#", "2", "9", "2", "8", "2", "8">>,
      <<"#", "2", "9", "2", "8", "2", "8", "0", "0">>,
      <<"2", "9", "2", "8", "2", "8">>,
      <<"#", "0", "0", "0", "0", "0", "0">>,
      <<"#", "F", "F", "F", "F", "F", "F">>,
      <<"#", "a", "B", "c", "D", "e", "F", "1", "7">>,
      <<"e_acute", "2", "9", "2", "8", "2", "8">> }

NotParsed == [tag |-> "None"]

\* the arguments of fade and of the conversion before either is exercised
ConversionIdle ==
    /\ rgba = Color(0, 0, 0, 0)
    /\ alpha = F32(0, 1)
    /\ wgpu_color = None
    /\ faded = None

ColorInit ==
    /\ hex = <<>>
    /\ parsed = NotParsed
    /\ ConversionIdle

HexInit ==
    /\ \/ \E n \in 0..MaxHexLen : hex \in [1..n -> HexAlphabet]
       \/ hex \in HexExamples
    /\ parsed = NotParsed
    /\ ConversionIdle

ParseHex ==
    /\ parsed = NotParsed
    /\ parsed' = from_hex(hex)
    /\ UNCHANGED <<hex, rgba, alpha, wgpu_color, faded>>

(***************************************************************************)
(* mod.rs: the Geometry Buffer                                             *)
(***************************************************************************)
\* number of values of the index type u16
U16 == 65536

\* `n as u16`
AsU16(n) == n % U16

\* u16 addition.  An overflowing sum aborts a debug build and wraps in a
\* release build; with 4-vertex shapes and local indices 0..3 the operands
\* are at most 65532 and 3, so no sum modelled here overflows.
AddU16(a, b) == (a + b) % U16

\* The Geometry Buffer.  The first `batched` quads are those of the initial
\* batch (BatchVertex, BatchIndex below); `vertices` and `indices` list what
\* was pushed after them.
Buffer(n, vs, is) == [batched |-> n, vertices |-> vs, indices |-> is]

EmptyBuffer == Buffer(0, <<>>, <<>>)

\* self.vertices.len()
VertexCount(buf) == 4 * buf.batched + Len(buf.vertices)

\* self.indices.len()
IndexCount(buf) == 6 * buf.batched + Len(buf.indices)

\* push_shape offsetting by the number of indices instead of vertices
push_shape_by_index_count(buf, vs, is) ==
    LET len == AsU16(IndexCount(buf))
    IN  Buffer(buf.batched,
               buf.vertices \o vs,
               buf.indices \o [i \in 1..Len(is) |-> AddU16(is[i], len)])

\* State::push_shape on the buffer `buf`
push_shape(buf, vs, is) ==
    LET len == AsU16(VertexCount(buf))
    IN  Buffer(buf.batched,
               buf.vertices \o vs,
               buf.indices \o [i \in 1..Len(is) |-> AddU16(is[i], len)])

Vertex(position, color) == [position |-> position, color |-> color]

\* the [f32; 4] made of wgpu::Color::from(color)
ColorArray(color) ==
    LET c == WgpuColor(color) IN <<c.r, c.g, c.b, c.a>>

QuadIndices == <<0, 2, 3, 3, 1, 0>>

Shape(vs, is) == [vertices |-> vs, indices |-> is]

draw_square(x, y, width, color) ==
    LET c == ColorArray(color)
    IN  Shape(<< Vertex(<<x, y, 0>>, c),
                 Vertex(<<x + width, y, 0>>, c),
                 Vertex(<<x, y + width, 0>>, c),
                 Vertex(<<x + width, y + width, 0>>, c) >>,
              QuadIndices)

draw_rectangle(x, y, width, height, color) ==
    LET c == ColorArray(color)
    IN  Shape(<< Vertex(<<x, y, 0>>, c),
                 Vertex(<<x + width, y, 0>>, c),
                 Vertex(<<x, y + height, 0>>, c),
                 Vertex(<<x + width, y + height, 0>>, c) >>,
              QuadIndices)

\* ((y2 - y1) / (x2 - x1)).atan() in quarter turns (units of PI / 2), for
\* axis-aligned lines: a zero denominator gives +-inf and atan(+-inf) is
\* +-PI/2; a zero numerator gives +-0.
AtanQuarter(dy, dx) ==
    IF dx = 0 THEN (IF dy > 0 THEN 1 ELSE -1) ELSE 0

\* cos and sin of a whole number of quarter turns.  The f32 results differ
\* from these by less than 1e-7, which the additions below round away for
\* coordinates >= 4 and thickness 2.
CosQuarter(q) == CASE q = 0 -> 1 [] q = 1 -> 0 [] q = 2 -> -1

SinQuarter(q) == CASE q = 0 -> 0 [] q = 1 -> 1 [] q = 2 -> 0

draw_line(x1, y1, x2, y2, thickness, color) ==
    LET c == ColorArray(color)
        angle == AtanQuarter(y2 - y1, x2 - x1)
        pangle == angle + 1
        r == thickness \div 2
        pdx == CosQuarter(pangle) * r
        pdy == SinQuarter(pangle) * r
    IN  Shape(<< Vertex(<<x2 + pdx, y2 + pdy, 0>>, c),
                 Vertex(<<x1 + pdx, y1 + pdy, 0>>, c),
                 Vertex(<<x2 - pdx, y2 - pdy, 0>>, c),
                 Vertex(<<x1 - pdx, y1 - pdy, 0>>, c) >>,
              QuadIndices)

(***************************************************************************)
(* mod.rs: Background                                                      *)
(***************************************************************************)
BackgroundDefault == [color |-> TRANSPARENT, should_clear |-> FALSE]

\* clear that raises the flag and keeps the old colour
BackgroundClearKeepsColor(bg, color) == [bg EXCEPT !.should_clear = TRUE]

\* reset that leaves the flag raised
BackgroundResetKeepsFlag(bg) == bg

BackgroundClear(bg, color) == [color |-> color, should_clear |-> TRUE]

BackgroundReset(bg) == [bg EXCEPT !.should_clear = FALSE]

(***************************************************************************)
(* The frame-submit cycle (graphics/render.rs), after sections 3 and 4.3   *)
(* of the specification                                                    *)
(***************************************************************************)
\* bytes of a Vertex: position 3 x f32, colour 4 x f32
VertexSize == 28

\* bytes of a u16 index
IndexSize == 2

\* buffers created with room for one quad
InitialBufferSizeOneQuad == 4 * VertexSize

\* size of the buffers State::new creates
InitialBufferSize == 0

\* device.create_buffer(size: 0) in State::new.  A GPU buffer is its
\* allocation (id, size in bytes) and the bytes the last upload wrote.
NewBuffer == [size |-> InitialBufferSize, written |-> 0, id |-> 0]

\* upload: copy `count` elements into `buf`; when their byte size exceeds
\* the allocation, a new buffer of that size replaces it
UploadTo(buf, count, elemSize) ==
    LET bytes == count * elemSize
    IN  IF bytes > buf.size
        THEN [size |-> bytes, written |-> bytes, id |-> buf.id + 1]
        ELSE [buf EXCEPT !.written = bytes]

Max(a, b) == IF a >= b THEN a ELSE b

NoPass == [load |-> "None", color |-> TRANSPARENT, index_count |-> 0]

\* the render pass of a frame: clear to the background colour when a clear
\* was requested, else load the prior contents; one indexed draw call
BeginRenderPass(bg, index_count) ==
    [load |-> IF bg.should_clear THEN "Clear" ELSE "Load",
     color |-> bg.color,
     index_count |-> index_count]

FramebufferInit == [color |-> TRANSPARENT, stacked |-> FALSE]

\* the framebuffer after the pass: its base colour, and whether the frame
\* was drawn over the pixels of earlier frames
Rendered(fb, pass) ==
    IF pass.load = "Clear"
    THEN [color |-> pass.color, stacked |-> FALSE]
    ELSE [fb EXCEPT !.stacked = TRUE]

AllSteps == {"upload", "draw", "present"}

NoCall == Shape(<<>>, <<>>)

NoRequest == [called |-> FALSE, color |-> TRANSPARENT]

(***************************************************************************)
(* Inputs of the emitters                                                  *)
(***************************************************************************)
\* the colours game/src/main.rs draws and clears with
White == unwrap(from_hex(<<"#", "F", "F", "F", "F", "F", "F">>))

Black == unwrap(from_hex(<<"#", "0", "0", "0", "0", "0", "0">>))

Grey == unwrap(from_hex(<<"#", "2", "9", "2", "8", "2", "8">>))

ShapeColors == {White}

ClearColors == {Black, Grey}

Coords == {4}

Widths == {4}

Heights == {8}

\* axis-aligned lines <<x1, y1, x2, y2>>: horizontal, vertical
Lines == {<<4, 4, 8, 4>>, <<4, 4, 4, 8>>}

Thicknesses == {2}

\* arguments of a direct push_shape call: 4 vertices, 6 local indices in 0..3
RawVertices ==
    << Vertex(<<8, 8, 0>>, ColorArray(Black)),
       Vertex(<<12, 8, 0>>, ColorArray(Black)),
       Vertex(<<8, 12, 0>>, ColorArray(Black)),
       Vertex(<<12, 12, 0>>, ColorArray(Black)) >>

RawIndices == {<<0, 1, 2, 2, 1, 3>>}

(***************************************************************************)
(* Actions                                                                 *)
(***************************************************************************)
NumVertices == VertexCount(Buffer(batched, vertices, indices))

NumIndices == IndexCount(Buffer(batched, vertices, indices))

\* every emitter ends in self.push_shape(vertices, indices)
Push(shape) ==
    LET buf == push_shape(Buffer(batched, vertices, indices),
                          shape.vertices, shape.indices)
    IN  /\ pc = "Idle"
        /\ vertices' = buf.vertices
        /\ indices' = buf.indices
        /\ call' = shape
        /\ shapes' = shapes + 1
        /\ emitted' = emitted + 1
        /\ UNCHANGED <<colorVars, frameVars, batched>>

DrawSquare ==
    \E x \in Coords, y \in Coords, width \in Widths, color \in ShapeColors :
        Push(draw_square(x, y, width, color))

DrawRectangle ==
    \E x \in Coords, y \in Coords, width \in Widths, height \in Heights,
       color \in ShapeColors :
        Push(draw_rectangle(x, y, width, height, color))

DrawLine ==
    \E l \in Lines, thickness \in Thicknesses, color \in ShapeColors :
        Push(draw_line(l[1], l[2], l[3], l[4], thickness, color))

PushShape ==
    \E is \in RawIndices : Push(Shape(RawVertices, is))

ClearBackground ==
    \E color \in ClearColors :
        /\ pc = "Idle"
        /\ background' = BackgroundClear(background, WgpuColor(color))
        /\ requested' = [called |-> TRUE, color |-> WgpuColor(color)]
        /\ UNCHANGED <<colorVars, geometryVars, vertex_buffer, index_buffer,
                       pc, render_pass, framebuffer, did, peak>>

\* begin_frame: a drawable surface view is acquired
BeginFrame ==
    /\ pc = "Idle"
    /\ pc' = "Begun"
    /\ did' = {}
    /\ UNCHANGED <<colorVars, geometryVars, background, vertex_buffer,
                   index_buffer, render_pass, framebuffer, requested, peak>>

\* a skipped frame that still uploads
SkipFrameUploads ==
    /\ pc = "Idle"
    /\ did' = {}
    /\ emitted' = 0
    /\ vertex_buffer' = UploadTo(vertex_buffer, NumVertices, VertexSize)
    /\ index_buffer' = UploadTo(index_buffer, NumIndices, IndexSize)
    /\ UNCHANGED <<colorVars, batched, vertices, indices, call, shapes,
                   background, pc, render_pass, framebuffer, requested, peak>>

\* begin_frame: no drawable surface is available, the frame is skipped
SkipFrame ==
    /\ pc = "Idle"
    /\ did' = {}
    /\ emitted' = 0
    /\ UNCHANGED <<colorVars, batched, vertices, indices, call, shapes,
                   background, vertex_buffer, index_buffer, pc, render_pass,
                   framebuffer, requested, peak>>

Upload ==
    /\ pc = "Begun"
    /\ vertex_buffer' = UploadTo(vertex_buffer, NumVertices, VertexSize)
    /\ index_buffer' = UploadTo(index_buffer, NumIndices, IndexSize)
    /\ peak' = [v |-> Max(peak.v, NumVertices * VertexSize),
                i |-> Max(peak.i, NumIndices * IndexSize)]
    /\ did' = did \cup {"upload"}
    /\ pc' = "Uploaded"
    /\ UNCHANGED <<colorVars, geometryVars, background, render_pass,
                   framebuffer, requested>>

Draw ==
    /\ pc = "Uploaded"
    /\ render_pass' = BeginRenderPass(background, NumIndices)
    /\ framebuffer' = Rendered(framebuffer, render_pass')
    /\ did' = did \cup {"draw"}
    /\ pc' = "Drawn"
    /\ UNCHANGED <<colorVars, geometryVars, background, vertex_buffer,
                   index_buffer, requested, peak>>

Present ==
    /\ pc = "Drawn"
    /\ did' = did \cup {"present"}
    /\ pc' = "Presented"
    /\ UNCHANGED <<colorVars, geometryVars, background, vertex_buffer,
                   index_buffer, render_pass, framebuffer, requested, peak>>

\* after present: the Geometry Buffer is cleared, the Background reset
EndFrame ==
    /\ pc = "Presented"
    /\ batched' = 0
    /\ vertices' = <<>>
    /\ indices' = <<>>
    /\ background' = BackgroundReset(background)
    /\ shapes' = 0
    /\ emitted' = 0
    /\ requested' = NoRequest
    /\ call' = NoCall
    /\ render_pass' = NoPass
    /\ pc' = "Idle"
    /\ UNCHANGED <<colorVars, vertex_buffer, index_buffer, framebuffer, did,
                   peak>>

(***************************************************************************)
(* Specifications                                                          *)
(***************************************************************************)
FrameInit ==
    /\ background = BackgroundDefault
    /\ vertex_buffer = NewBuffer
    /\ index_buffer = NewBuffer
    /\ pc = "Idle"
    /\ render_pass = NoPass
    /\ framebuffer = FramebufferInit
    /\ requested = NoRequest
    /\ did = {}
    /\ peak = [v |-> 0, i |-> 0]

\* State::new: vertices and indices are Vec::new()
Init ==
    /\ ColorInit
    /\ FrameInit
    /\ batched = 0
    /\ vertices = <<>>
    /\ indices = <<>>
    /\ call = NoCall
    /\ shapes = 0
    /\ emitted = 0

Next ==
    \/ shapes < MaxShapes /\ DrawSquare
    \/ shapes < MaxShapes /\ DrawRectangle
    \/ shapes < MaxShapes /\ DrawLine
    \/ shapes < MaxShapes /\ PushShape
    \/ ClearBackground
    \/ BeginFrame
    \/ SkipFrame
    \/ Upload
    \/ Draw
    \/ Present
    \/ EndFrame

Spec == Init /\ [][Next]_vars

\* from_hex applied to each generated argument
HexSpecInit ==
    /\ HexInit
    /\ FrameInit
    /\ batched = 0
    /\ vertices = <<>>
    /\ indices = <<>>
    /\ call = NoCall
    /\ shapes = 0
    /\ emitted = 0

HexNext == ParseHex /\ UNCHANGED <<frameVars, geometryVars>>

HexSpec == HexSpecInit /\ [][HexNext]_vars

\* channel values: the ends of u8, its middle, and those of "#292828"
Channels == {0, 40, 41, 128, 255}

Colors == {Color(r, g, b, a) : r \in {0, 41, 255}, g \in {40, 255},
                               b \in {40, 255}, a \in Channels}

\* den = 2^AlphaBits
RECURSIVE Pow2(_)
Pow2(n) == IF n = 0 THEN 1 ELSE 2 * Pow2(n - 1)

\* the arguments of fade: every multiple of 1/den from -1.0 to 2.0
Alphas == {F32(k, Pow2(AlphaBits)) : k \in -Pow2(AlphaBits)..2 * Pow2(AlphaBits)}

\* wgpu::Color::from(rgba), i.e. rgba.into()
IntoWgpuColor ==
    /\ ~wgpu_color.some
    /\ wgpu_color' = Some(WgpuColor(rgba))
    /\ UNCHANGED <<hex, parsed, rgba, alpha, faded>>

\* rgba.fade(alpha); Color is Copy, the receiver is left as it was
Fade ==
    /\ ~faded.some
    /\ faded' = Some(fade(rgba, alpha))
    /\ UNCHANGED <<hex, parsed, rgba, alpha, wgpu_color>>

ColorSpecInit ==
    /\ hex = <<>>
    /\ parsed = NotParsed
    /\ rgba \in Colors
    /\ alpha \in Alphas
    /\ wgpu_color = None
    /\ faded = None
    /\ FrameInit
    /\ batched = 0
    /\ vertices = <<>>
    /\ indices = <<>>
    /\ call = NoCall
    /\ shapes = 0
    /\ emitted = 0

ColorNext ==
    \/ IntoWgpuColor /\ UNCHANGED <<frameVars, geometryVars>>
    \/ Fade /\ UNCHANGED <<frameVars, geometryVars>>

ColorSpec == ColorSpecInit /\ [][ColorNext]_vars

(***************************************************************************)
(* One render phase with many shapes.  The buffer starts with the quads of *)
(* BatchStart draw_square calls; they are kept as a count, and BatchInit    *)
(* admits the state only if push_shape itself builds exactly these quads.  *)
(***************************************************************************)
RECURSIVE PushN(_, _, _)
\* n push_shape calls of the same shape (the first half is evaluated before
\* the second is pushed onto it)
PushN(buf, shape, n) ==
    IF n = 0 THEN buf
    ELSE IF n = 1 THEN push_shape(buf, shape.vertices, shape.indices)
    ELSE LET half == PushN(buf, shape, n \div 2)
         IN  IF VertexCount(half) >= 0
             THEN PushN(half, shape, n - n \div 2)
             ELSE half

BatchSquare == draw_square(4, 4, 4, White)

\* the i-th vertex and index of the initial batch
BatchVertex(i) == BatchSquare.vertices[((i - 1) % 4) + 1]

BatchIndex(i) == QuadIndices[((i - 1) % 6) + 1] + 4 * ((i - 1) \div 6)

\* the initial batch of n quads, listed
Listed(n) ==
    Buffer(0, [i \in 1..(4 * n) |-> BatchVertex(i)],
              [i \in 1..(6 * n) |-> BatchIndex(i)])

\* quads whose vertices fill the u16 range: 4 * WrapShapes = 65536
WrapShapes == U16 \div 4

BatchStart == {0, WrapShapes - 1}

BatchInit ==
    /\ ColorInit
    /\ FrameInit
    /\ \E n \in BatchStart :
        /\ PushN(EmptyBuffer, BatchSquare, n) = Listed(n)
        /\ batched = n
        /\ vertices = <<>>
        /\ indices = <<>>
        /\ call = IF n = 0 THEN NoCall ELSE BatchSquare
        /\ shapes = n
        /\ emitted = n

\* the i-th element of State::vertices and of State::indices
VertexAt(i) ==
    IF i <= 4 * batched THEN BatchVertex(i) ELSE vertices[i - 4 * batched]

IndexAt(i) ==
    IF i <= 6 * batched THEN BatchIndex(i) ELSE indices[i - 6 * batched]

BatchRoom ==
    \/ shapes < MaxBatch
    \/ shapes >= WrapShapes - 1 /\ shapes < WrapShapes + MaxBatch

BatchNext ==
    \/ BatchRoom /\ DrawSquare
    \/ BatchRoom /\ DrawRectangle
    \/ BatchRoom /\ DrawLine
    \/ BatchRoom /\ PushShape

BatchSpec == BatchInit /\ [][BatchNext]_vars

(***************************************************************************)
(* Properties                                                              *)
(***************************************************************************)

C2_PushShapeAppends ==
    [][shapes' = shapes + 1 =>
        /\ batched' = batched
        /\ vertices' = vertices \o call'.vertices
        /\ indices' = indices \o [i \in 1..Len(call'.indices) |->
                                    call'.indices[i] + NumVertices]]_vars

\* C3: whatever the number of shapes, the k-th shape's indices are stored as
\* 4(k-1) + local index and are below the vertex count
C3_NoIndexWrap ==
    shapes >= 1 =>
        \A j \in 1..Len(call.indices) :
            /\ IndexAt(6 * (shapes - 1) + j) = 4 * (shapes - 1) + call.indices[j]
            /\ IndexAt(6 * (shapes - 1) + j) < NumVertices

\* C4: the step that ends a submit cycle leaves the Geometry Buffer empty and
\* should_clear false, whatever was pushed and whether a clear was requested
C4_FrameLifecycle ==
    [][pc = "Presented" /\ pc' = "Idle" =>
        /\ batched' = 0
        /\ vertices' = <<>>
        /\ indices' = <<>>
        /\ background'.should_clear = FALSE]_vars

\* a submit cycle of a frame with shapes and a requested clear has ended
C4_Witness ==
    /\ pc = "Idle"
    /\ did = AllSteps
    /\ emitted = 0
    /\ vertices = <<>>
    /\ vertex_buffer.written > 0
    /\ framebuffer.color # TRANSPARENT
    /\ ~background.should_clear

\* C5: when a tick's render phase begins, before its first emitter call, the
\* Geometry Buffer is empty, after completed and after skipped frames
C5_NeverPersists ==
    pc = "Idle" /\ emitted = 0 => NumVertices = 0 /\ NumIndices = 0

\* what a skipped frame leaves alone
C6_SkipLeaves ==
    SkipFrame =>
        /\ vertex_buffer' = vertex_buffer
        /\ index_buffer' = index_buffer
        /\ framebuffer' = framebuffer
        /\ render_pass' = render_pass
        /\ did' = {}
        /\ pc' = "Idle"

\* the steps done at each position of the cycle
C6_AllOrNone ==
    /\ pc = "Idle" => did \in {{}, AllSteps}
    /\ pc = "Idle" => ENABLED BeginFrame /\ ENABLED SkipFrame
    /\ pc = "Begun" => did = {}
    /\ pc = "Uploaded" => did = {"upload"}
    /\ pc = "Drawn" => did = {"upload", "draw"}
    /\ pc = "Presented" => did = AllSteps

\* C6: a skipped frame uploads, draws and presents nothing and leaves the GPU
\* buffers as they were; a finished frame did all three steps or none; after
\* a frame, the next one can be attempted
C6_SkippedFrame == []C6_AllOrNone /\ [][C6_SkipLeaves]_vars

\* a frame with shapes in the buffer was skipped after an earlier submit
C6_Witness ==
    /\ pc = "Idle"
    /\ did = {}
    /\ emitted = 0
    /\ shapes > 0
    /\ vertex_buffer.id > 0
    /\ vertex_buffer.written # NumVertices * VertexSize

\* capacity is the largest content size so far and covers what is drawn
C7_CapacityIsPeak ==
    /\ vertex_buffer.size = peak.v
    /\ index_buffer.size = peak.i
    /\ pc \in {"Uploaded", "Drawn"} =>
        /\ vertex_buffer.size >= NumVertices * VertexSize
        /\ index_buffer.size >= NumIndices * IndexSize
        /\ vertex_buffer.written = NumVertices * VertexSize
        /\ index_buffer.written = NumIndices * IndexSize

\* capacity does not decrease; a buffer is replaced only by a larger upload
C7_CapacityStep ==
    /\ vertex_buffer'.size >= vertex_buffer.size
    /\ index_buffer'.size >= index_buffer.size
    /\ vertex_buffer'.id # vertex_buffer.id =>
        /\ pc = "Begun"
        /\ NumVertices * VertexSize > vertex_buffer.size
        /\ vertex_buffer'.size = NumVertices * VertexSize
    /\ index_buffer'.id # index_buffer.id =>
        /\ pc = "Begun"
        /\ NumIndices * IndexSize > index_buffer.size
        /\ index_buffer'.size = NumIndices * IndexSize

\* C7: the GPU buffers start with capacity 0; capacity never decreases, is
\* the largest content size uploaded so far, covers the frame's contents at
\* the draw, and a buffer is replaced only when the contents exceed it
C7_CapacityNeverShrinks ==
    /\ vertex_buffer.size = 0 /\ index_buffer.size = 0
    /\ []C7_CapacityIsPeak
    /\ [][C7_CapacityStep]_vars

\* a small frame is drawn from buffers that an earlier, larger frame grew
C7_Witness ==
    /\ pc = "Drawn"
    /\ vertex_buffer.id >= 2
    /\ vertex_buffer.written > 0
    /\ vertex_buffer.written < vertex_buffer.size

\* the draw step, a clear_background call, and the reset ending a frame
C8_ClearStep ==
    /\ pc = "Uploaded" /\ pc' = "Drawn" =>
        IF requested.called
        THEN /\ render_pass'.load = "Clear"
             /\ render_pass'.color = requested.color
             /\ framebuffer' = [color |-> requested.color, stacked |-> FALSE]
        ELSE /\ render_pass'.load = "Load"
             /\ framebuffer' = [framebuffer EXCEPT !.stacked = TRUE]
    /\ requested'.called /\ requested' # requested =>
        /\ background'.should_clear
        /\ background'.color = requested'.color
    /\ pc = "Presented" /\ pc' = "Idle" =>
        /\ ~background'.should_clear
        /\ background'.color = background.color

\* C8: a frame's pass clears iff clear_background was called since the last
\* submit, to the colour of the latest call, and otherwise keeps the prior
\* contents; clear sets should_clear and stores the colour, reset unsets
\* should_clear and keeps the colour
C8_ClearIffRequested == [][C8_ClearStep]_vars

\* a frame with shapes is cleared to the second colour over an earlier one
C8_Witness ==
    /\ pc = "Drawn"
    /\ render_pass.load = "Clear"
    /\ render_pass.color = WgpuColor(Grey)
    /\ render_pass.index_count > 0
    /\ background.color = WgpuColor(Grey)
    /\ vertex_buffer.id >= 2

(***************************************************************************)
(* Properties of from_hex                                                  *)
(***************************************************************************)
UpperDigits ==
    <<"0", "1", "2", "3", "4", "5", "6", "7", "8", "9",
      "A", "B", "C", "D", "E", "F">>

LowerDigits ==
    <<"0", "1", "2", "3", "4", "5", "6", "7", "8", "9",
      "a", "b", "c", "d", "e", "f">>

IsHexDigit(c) == \E v \in 1..16 : UpperDigits[v] = c \/ LowerDigits[v] = c

DigitValue(c) ==
    (CHOOSE v \in 1..16 : UpperDigits[v] = c \/ LowerDigits[v] = c) - 1

PairValue(d, k) == 16 * DigitValue(d[2 * k - 1]) + DigitValue(d[2 * k])

\* a '#' followed by a bad character, by fewer than 6 digits, or by 7
Malformed(s) ==
    /\ Len(s) >= 1
    /\ s[1] = "#"
    /\ \/ \E i \in 2..Len(s) : ~IsHexDigit(s[i])
       \/ Len(s) - 1 < 6
       \/ Len(s) - 1 = 7

\* a '#' followed by 6 or by 8 hex digits
WellFormed(s) ==
    /\ Len(s) \in {7, 9}
    /\ s[1] = "#"
    /\ \A i \in 2..Len(s) : IsHexDigit(s[i])

\* C9: from_hex returns a parse error for every malformed string
C9_MalformedIsError ==
    parsed # NotParsed /\ Malformed(hex) => parsed.tag = "Err"

\* C10: from_hex of '#' and 6 or 8 hex digits is Ok with the digit pairs as
\* r, g, b and a (255 without a fourth pair); "#292828" gives {41,40,40,255},
\* "#29282800" alpha 0, and so does "292828", the string of the test
C10_FromHexValue ==
    parsed # NotParsed =>
        /\ WellFormed(hex) =>
            LET d == Tail(hex)
            IN  parsed = Ok(Color(PairValue(d, 1), PairValue(d, 2), PairValue(d, 3),
                                  IF Len(d) = 8 THEN PairValue(d, 4) ELSE 255))
        /\ hex = <<"#", "2", "9", "2", "8", "2", "8">> =>
            parsed = Ok(Color(41, 40, 40, 255))
        /\ hex = <<"#", "2", "9", "2", "8", "2", "8", "0", "0">> =>
            parsed = Ok(Color(41, 40, 40, 0))
        /\ hex = <<"2", "9", "2", "8", "2", "8">> =>
            parsed = Ok(Color(41, 40, 40, 255))
(***************************************************************************)
(* Properties of the colour conversions                                    *)
(***************************************************************************)
ChannelNames == {"r", "g", "b", "a"}

\* C11: the conversion maps each of the four channels v to (v / 255)^2.2,
\* so that 255 becomes exactly 1.0 and 0 becomes 0.  ((v / 255)^2.2 equals
\* the result (num / den)^2.2 iff num * 255 = v * den.)
C11_NormalisedBy255 ==
    wgpu_color.some =>
        \A ch \in ChannelNames :
            LET out == wgpu_color.v[ch]
                v == rgba[ch]
            IN  /\ out.num * 255 = v * out.den
                /\ v = 255 => out.num = out.den
                /\ v = 0 => out.num = 0

\* alpha lies in [0, 1)
InUnitRange(a) == 0 <= a.num /\ a.num < a.den

\* k = floor(a * 256): the integer with k <= a * 256 < k + 1
IsFloorOf256Times(k, a) == k * a.den <= a.num * 256 /\ a.num * 256 < (k + 1) * a.den

Emitter == DrawSquare \/ DrawRectangle \/ DrawLine

SetMin(S) == CHOOSE x \in S : \A y \in S : x <= y
SetMax(S) == CHOOSE x \in S : \A y \in S : x >= y

\* vs lists a quad as top-left, top-right, bottom-left, bottom-right in the
\* y-down coordinates of the camera, all at z = 0
IsCornerOrder(vs) ==
    LET xs == {vs[i].position[1] : i \in 1..4}
        ys == {vs[i].position[2] : i \in 1..4}
    IN  /\ vs[1].position = <<SetMin(xs), SetMin(ys), 0>>
        /\ vs[2].position = <<SetMax(xs), SetMin(ys), 0>>
        /\ vs[3].position = <<SetMin(xs), SetMax(ys), 0>>
        /\ vs[4].position = <<SetMax(xs), SetMax(ys), 0>>

\* what a step has appended to the two vectors
AppendedVertices == SubSeq(vertices', Len(vertices) + 1, Len(vertices'))
AppendedIndices == SubSeq(indices', Len(indices) + 1, Len(indices'))

\* a step lays out one quad: 4 vertices of one colour, 6 indices that are
\* 0,2,3,3,1,0 once the quad's base vertex offset is taken off
QuadWinding ==
    /\ Len(AppendedVertices) = 4
    /\ Len(AppendedIndices) = 6
    /\ \A i \in 1..4 : AppendedVertices[i].color = AppendedVertices[1].color
    /\ \A k \in 1..6 : /\ AppendedIndices[k] - NumVertices = QuadIndices[k]
                        /\ AppendedIndices[k] % 4 = QuadIndices[k]

QuadAppended == QuadWinding /\ IsCornerOrder(AppendedVertices)

\* C13: every call of draw_square, draw_rectangle or draw_line appends 4
\* vertices and 6 indices; the vertices are the quad's top-left, top-right,
\* bottom-left and bottom-right corners in that order, at z = 0 and of one
\* colour; the stored indices less the quad's base offset are 0,2,3,3,1,0.
C13_EmitterQuad == [][Emitter => QuadAppended]_vars

\* the part of C13 that does not name the corners
C13_Winding == [][Emitter => QuadWinding]_vars

\* C13 for the two axis-aligned emitters
C13_SquareRectangle == [][(DrawSquare \/ DrawRectangle) => QuadAppended]_vars
(***************************************************************************)
(* Properties of the order of a frame                                      *)
(***************************************************************************)
\* the cycle's positions in order: begin_frame, upload, draw, present, clear
FrameOrder ==
    { <<"Idle", "Begun">>, <<"Begun", "Uploaded">>, <<"Uploaded", "Drawn">>,
      <<"Drawn", "Presented">>, <<"Presented", "Idle">> }

\* each step of a submitted frame follows the one before it, once
C14_Step ==
    /\ pc' # pc => <<pc, pc'>> \in FrameOrder
    /\ pc = "Begun" /\ pc' = "Uploaded" => did = {} /\ did' = {"upload"}
    /\ pc = "Uploaded" /\ pc' = "Drawn" => did' = {"upload", "draw"}
    /\ pc = "Drawn" /\ pc' = "Presented" => did' = AllSteps
    /\ pc = "Presented" => pc' = "Idle"

\* nothing is pushed between begin_frame and the clear that follows present
C14_NoEmitterInFrame ==
    pc # "Idle" =>
        \/ <<batched, vertices, indices>>' = <<batched, vertices, indices>>
        \/ pc = "Presented" /\ NumVertices' = 0 /\ NumIndices' = 0

\* the index buffer holds the indices present at upload
C14_Uploaded ==
    pc \in {"Uploaded", "Drawn", "Presented"} =>
        index_buffer.written = NumIndices * IndexSize

\* the draw call's index count is the number of indices uploaded
C14_DrawsUploaded ==
    pc \in {"Drawn", "Presented"} =>
        render_pass.index_count * IndexSize = index_buffer.written

\* the draw call's index count is 6 times the shapes pushed in this frame
C14_DrawsThisFrame ==
    pc \in {"Drawn", "Presented"} => render_pass.index_count = 6 * emitted

\* the ordering and the index count without the count of this frame's shapes
C14_OrderAndCount ==
    /\ [][C14_Step /\ C14_NoEmitterInFrame]_vars
    /\ [](C14_Uploaded /\ C14_DrawsUploaded)

\* C14: a submitted frame goes Idle, begin_frame, upload, draw, present,
\* Idle, each step once and in that order; nothing is pushed between
\* begin_frame and the clear after present; the frame's draw call uses as
\* index count the number of indices in the Geometry Buffer at upload, which
\* is 6 times the number of shapes pushed in that frame.
C14_FrameOrdering ==
    /\ [][C14_Step /\ C14_NoEmitterInFrame]_vars
    /\ [](C14_Uploaded /\ C14_DrawsUploaded /\ C14_DrawsThisFrame)
====
